---- MODULE Spec2Model ----
(***************************************************************************)
(* pangea-client (rust): the delegating Client<T> of core/client.rs over   *)
(* the request/response transport HttpProvider of providers/http.rs.       *)
(*                                                                         *)
(* One call is followed from the moment the caller invokes a capability    *)
(* method until the caller has observed its failure or has dropped the     *)
(* stream it returned.  The environment decides whether Url::join          *)
(* succeeds, whether send() succeeds, and what the response body yields.   *)
(*                                                                         *)
(* Spec      calls on a provider built without credentials                 *)
(* SpecNew   HttpProvider::try_new with every choice of arguments, then    *)
(*           calls                                                         *)
(* SpecWs    Client<WsProvider>::raw_request and the subscriptions of the  *)
(*           streaming transport on one connection                         *)
(* SpecBoth  calls on the request/response transport, then operations on   *)
(*           the streaming transport                                       *)
(* SpecStatus calls on a bare HttpProvider with the status of the response *)
(* SpecMira  the Mira requests of core/requests/mira.rs built, serialized  *)
(*           and read back                                                 *)
(***************************************************************************)
EXTENDS Integers, Sequences, FiniteSets, TLC

(* ------------------------------ bounds --------------------------------- *)

\* largest block height a request bound may carry
MaxBlock == 1

\* largest number of data chunks a response body yields
MaxBody == 3

\* largest number of frames the remote side pushes for one subscription
MaxFrames == 5

\* largest number of inbound frames read from the connection and not yet
\* handed to a stream
MaxInflight == 2

\* largest number of operations one connection carries over its life
MaxOps == 3

\* largest number of subscriptions open on the connection at once
MaxSubs == 2

(* ------------------------------ data ----------------------------------- *)

\* ChainId values; BTC and FUEL are the two the sources name
ChainIds == {"ETH", "BTC", "FUEL", "MOVEMENT"}

\* the supported chain set each chain-scoped resource family declares
SupportedChains ==
    [ FuelProvider |-> {"FUEL"},
      MoveProvider |-> {"MOVEMENT"} ]

\* Format tokens
Formats == {"JsonStream", "JsonArray"}

\* Bound: absent (unbounded on that side) or an inclusive block height
Unbounded == [bounded |-> FALSE, height |-> 0]

Bounds == {Unbounded} \cup {[bounded |-> TRUE, height |-> n] : n \in 1..MaxBlock}

\* a typed request: the chain filter and the block range
Requests == [chains : SUBSET ChainIds, from_block : Bounds, to_block : Bounds]

\* byte chunks a response body may yield.  Bytes are abstract: 1 opens a
\* JSON document, 2 closes it, 3 is a newline; <<1, 2, 3>> is one complete
\* record and <<1>> the first byte of a record split across chunks.
ChunkBytes == {<<1, 2, 3>>, <<1>>}

\* const API_PATH
API_PATH == "v1/api/"

\* const STATUS_PATH
STATUS_PATH == "status"

\* Option<String>: <<>> is None, <<s>> is Some(s)
Credentials == {<<>>, <<"user">>}

Passwords == {<<>>, <<"secret">>}

\* endpoints handed to try_new; Url::from_str rejects the empty host
Endpoints == {"endpoint", ""}

\* Operation tags of the streaming transport
Operations == {"GetBlocks", "GetFuelBlocks", "GetMoveLogs"}

\* params values handed to raw_request
WsParams == {r \in Requests : /\ r.chains \in {{}, {"FUEL"}}
                              /\ r.from_block = Unbounded
                              /\ r.to_block = Unbounded}

\* the number of frames of the initial result set of a subscription
Backfill == 2

\* status codes a server answers with
Statuses == {200, 404, 500}

\* requests of the calls whose response status is followed
StatusRequests == {r \in Requests : /\ r.from_block = Unbounded
                                    /\ r.to_block = Unbounded}

\* the request of get_status_by_format, (): it has no field to serialize
Unit == [chains |-> {}, from_block |-> Unbounded, to_block |-> Unbounded]

(* ------------------------------ state ---------------------------------- *)

VARIABLES
    pc,          \* "new", "idle", "failed", "streaming", "errored", "drained"
    built,       \* the arguments the provider was constructed with
    provider,    \* the HttpProvider: base_url and the client's default headers
    entry,       \* the value the caller calls: "Client", "HttpProvider"
    call,        \* the method and the arguments of the call
    innerCalls,  \* invocations of self.inner by Client<T> for this call
    innerResult, \* what the invocation of self.inner returned
    outbound,    \* the GETs HttpProvider sent for this call
    result,      \* what the call returned to the caller
    log,         \* the steps of the call, in order
    held,        \* connections checked out for the response of this call
    wire,        \* the items the response body has yielded
    delivered,   \* the items the stream HttpProvider returned has yielded
    records,     \* the items the stream Client::get_status returned has yielded
    wsNextId,    \* the correlation identifier of the next operation
    wsSlots,     \* per correlation identifier, the subscription it names
    wsInbound,   \* inbound frames read and not yet handed to a stream
    wsLast,      \* the last raw_request: what it received and forwarded
    mira,        \* a Mira request being built, serialized and read back
    status       \* the status of the last response looked at (0: none)

httpVars == <<pc, provider, built, entry, call, innerCalls, innerResult, outbound,
              result, log, held, wire, delivered, records>>

wsVars == <<wsNextId, wsSlots, wsInbound, wsLast>>

vars == <<httpVars, wsVars, mira, status>>

(* -------------------- providers/http.rs: path table -------------------- *)

\* for every capability method HttpProvider implements, the path constant
\* its body hands to self.url
HttpPath ==
    [ ChainProvider |->
        [ get_blocks_by_format |-> "blocks",
          get_logs_by_format |-> "logs",
          get_txs_by_format |-> "transactions",
          get_transfers_by_format |-> "transfers" ],
      UniswapV2Provider |->
        [ get_pairs_by_format |-> "uniswap/v2/pairs",
          get_prices_by_format |-> "uniswap/v2/prices" ],
      UniswapV3Provider |->
        [ get_fees_by_format |-> "uniswap/v3/fees",
          get_pools_by_format |-> "uniswap/v3/pools",
          get_prices_by_format |-> "uniswap/v3/prices",
          get_positions_by_format |-> "uniswap/v3/positions" ],
      CurveProvider |->
        [ get_tokens_by_format |-> "curve/tokens",
          get_pools_by_format |-> "curve/pools",
          get_prices_by_format |-> "curve/prices" ],
      Erc20Provider |->
        [ get_erc20_by_format |-> "erc20",
          get_erc20_approval_by_format |-> "erc20/approvals",
          get_erc20_transfers_by_format |-> "erc20/transfers" ],
      FuelProvider |->
        [ get_fuel_blocks_by_format |-> "blocks",
          get_fuel_logs_by_format |-> "logs",
          get_fuel_logs_decoded_by_format |-> "logs/decoded",
          get_fuel_txs_by_format |-> "transactions",
          get_fuel_receipts_by_format |-> "receipts",
          get_fuel_messages_by_format |-> "messages",
          get_fuel_unspent_utxos_by_format |-> "transactions/outputs",
          get_fuel_spark_markets_by_format |-> "spark/markets",
          get_fuel_spark_orders_by_format |-> "spark/orders",
          get_fuel_src20_by_format |-> "src20",
          get_fuel_src7_by_format |-> "src7",
          get_fuel_mira_v1_pools_by_format |-> "mira/v1/pools",
          get_fuel_mira_v1_liquidity_by_format |-> "mira/v1/liquidity",
          get_fuel_mira_v1_swaps_by_format |-> "mira/v1/swaps" ],
      MoveProvider |->
        [ get_move_logs_by_format |-> "logs",
          get_move_logs_decoded_by_format |-> "logs/decoded",
          get_move_txs_by_format |-> "transactions",
          get_move_txs_decoded_by_format |-> "transactions/decoded",
          get_move_receipts_by_format |-> "receipts",
          get_move_receipts_decoded_by_format |-> "receipts/decoded",
          get_move_modules_by_format |-> "modules",
          get_move_fa_tokens_by_format |-> "fa-tokens",
          get_move_interest_v1_pools_by_format |-> "interest/v1/pools",
          get_move_interest_v1_liquidity_by_format |-> "interest/v1/liquidity",
          get_move_interest_v1_swaps_by_format |-> "interest/v1/swaps",
          get_move_arche_collaterals_by_format |-> "arche/collaterals",
          get_move_arche_loans_by_format |-> "arche/loans",
          get_move_arche_positions_by_format |-> "arche/positions",
          get_move_pyth_by_format |-> "pyth",
          get_move_balances_by_format |-> "balances" ],
      BtcProvider |->
        [ get_btc_blocks_by_format |-> "blocks",
          get_btc_txs_by_format |-> "transactions" ] ]

Traits == DOMAIN HttpPath

\* the methods HttpProvider implements for a capability trait
HttpMethods(trait) == DOMAIN HttpPath[trait]

(* ------------------ core/client.rs: forwarding table ------------------- *)

\* for every capability method Client<T> implements: whether its body calls
\* self.check_chain(&request.chains)? first, and the method of self.inner
\* it then calls with (request, format, deltas)
ClientImpl ==
    [ ChainProvider |->
        [ get_blocks_by_format |->
              [check |-> FALSE, inner |-> "get_blocks_by_format"],
          get_logs_by_format |->
              [check |-> FALSE, inner |-> "get_logs_by_format"],
          get_txs_by_format |->
              [check |-> FALSE, inner |-> "get_txs_by_format"],
          get_transfers_by_format |->
              [check |-> FALSE, inner |-> "get_transfers_by_format"] ],
      UniswapV2Provider |->
        [ get_pairs_by_format |->
              [check |-> FALSE, inner |-> "get_pairs_by_format"],
          get_prices_by_format |->
              [check |-> FALSE, inner |-> "get_prices_by_format"] ],
      UniswapV3Provider |->
        [ get_fees_by_format |->
              [check |-> FALSE, inner |-> "get_fees_by_format"],
          get_pools_by_format |->
              [check |-> FALSE, inner |-> "get_pools_by_format"],
          get_prices_by_format |->
              [check |-> FALSE, inner |-> "get_prices_by_format"],
          get_positions_by_format |->
              [check |-> FALSE, inner |-> "get_positions_by_format"] ],
      CurveProvider |->
        [ get_tokens_by_format |->
              [check |-> FALSE, inner |-> "get_tokens_by_format"],
          get_pools_by_format |->
              [check |-> FALSE, inner |-> "get_pools_by_format"],
          get_prices_by_format |->
              [check |-> FALSE, inner |-> "get_prices_by_format"] ],
      Erc20Provider |->
        [ get_erc20_by_format |->
              [check |-> FALSE, inner |-> "get_erc20_by_format"],
          get_erc20_approval_by_format |->
              [check |-> FALSE, inner |-> "get_erc20_approval_by_format"],
          get_erc20_transfers_by_format |->
              [check |-> FALSE, inner |-> "get_erc20_transfers_by_format"] ],
      FuelProvider |->
        [ get_fuel_blocks_by_format |->
              [check |-> TRUE, inner |-> "get_fuel_blocks_by_format"],
          get_fuel_logs_by_format |->
              [check |-> TRUE, inner |-> "get_fuel_logs_by_format"],
          get_fuel_logs_decoded_by_format |->
              [check |-> TRUE, inner |-> "get_fuel_logs_decoded_by_format"],
          get_fuel_txs_by_format |->
              [check |-> TRUE, inner |-> "get_fuel_txs_by_format"],
          get_fuel_receipts_by_format |->
              [check |-> TRUE, inner |-> "get_fuel_receipts_by_format"],
          get_fuel_messages_by_format |->
              [check |-> TRUE, inner |-> "get_fuel_messages_by_format"],
          get_fuel_unspent_utxos_by_format |->
              [check |-> TRUE, inner |-> "get_fuel_unspent_utxos_by_format"],
          get_fuel_spark_markets_by_format |->
              [check |-> TRUE, inner |-> "get_fuel_spark_markets_by_format"],
          get_fuel_spark_orders_by_format |->
              [check |-> TRUE, inner |-> "get_fuel_spark_orders_by_format"],
          get_fuel_src20_by_format |->
              [check |-> TRUE, inner |-> "get_fuel_src20_by_format"],
          get_fuel_src7_by_format |->
              [check |-> TRUE, inner |-> "get_fuel_src7_by_format"],
          get_fuel_mira_v1_pools_by_format |->
              [check |-> TRUE, inner |-> "get_fuel_mira_v1_pools_by_format"],
          get_fuel_mira_v1_liquidity_by_format |->
              [check |-> TRUE, inner |-> "get_fuel_mira_v1_liquidity_by_format"],
          get_fuel_mira_v1_swaps_by_format |->
              [check |-> TRUE, inner |-> "get_fuel_mira_v1_swaps_by_format"] ],
      MoveProvider |->
        [ get_move_logs_by_format |->
              [check |-> TRUE, inner |-> "get_move_logs_by_format"],
          get_move_logs_decoded_by_format |->
              [check |-> TRUE, inner |-> "get_move_logs_decoded_by_format"],
          get_move_txs_by_format |->
              [check |-> TRUE, inner |-> "get_move_txs_by_format"],
          get_move_receipts_by_format |->
              [check |-> TRUE, inner |-> "get_move_receipts_by_format"],
          get_move_receipts_decoded_by_format |->
              [check |-> TRUE, inner |-> "get_move_receipts_decoded_by_format"],
          get_move_fa_tokens_by_format |->
              [check |-> TRUE, inner |-> "get_move_fa_tokens_by_format"],
          get_move_interest_v1_pools_by_format |->
              [check |-> TRUE, inner |-> "get_move_interest_v1_pools_by_format"],
          get_move_interest_v1_liquidity_by_format |->
              [check |-> TRUE, inner |-> "get_move_interest_v1_liquidity_by_format"],
          get_move_interest_v1_swaps_by_format |->
              [check |-> TRUE, inner |-> "get_move_interest_v1_swaps_by_format"],
          get_move_arche_collaterals_by_format |->
              [check |-> TRUE, inner |-> "get_move_arche_collaterals_by_format"],
          get_move_arche_loans_by_format |->
              [check |-> TRUE, inner |-> "get_move_arche_loans_by_format"],
          get_move_arche_positions_by_format |->
              [check |-> TRUE, inner |-> "get_move_arche_positions_by_format"],
          get_move_pyth_by_format |->
              [check |-> TRUE, inner |-> "get_move_pyth_by_format"],
          get_move_balances_by_format |->
              [check |-> TRUE, inner |-> "get_move_balances_by_format"] ],
      BtcProvider |->
        [ get_btc_blocks_by_format |->
              [check |-> FALSE, inner |-> "get_btc_blocks_by_format"],
          get_btc_txs_by_format |->
              [check |-> FALSE, inner |-> "get_btc_txs_by_format"] ] ]

\* the methods Client<T> implements for a capability trait
ClientMethods(trait) == DOMAIN ClientImpl[trait]

\* (variant: only the FuelProvider methods validate)
Validates_skipMove(trait, name) == trait = "FuelProvider"

\* (variant: only the MoveProvider methods validate)
Validates_skipFuel(trait, name) == trait = "MoveProvider"

\* (variant: one Fuel method forwards without validating)
Validates_oneSkipped(trait, name) ==
    ClientImpl[trait][name].check /\ name # "get_fuel_blocks_by_format"

\* whether the Client<T> method validates request.chains before forwarding
Validates(trait, name) == ClientImpl[trait][name].check

\* (variant: the Mira pools method forwards to the liquidity method)
InnerMethod_wrong(trait, name) ==
    IF name = "get_fuel_mira_v1_pools_by_format"
    THEN "get_fuel_mira_v1_liquidity_by_format"
    ELSE ClientImpl[trait][name].inner

\* the method of self.inner the Client<T> method forwards to
InnerMethod(trait, name) == ClientImpl[trait][name].inner

\* self.check_chain(&request.chains): the chains set is non-empty and every
\* member belongs to the supported chain set of the resource family.  The
\* call sites pass only the chains set; the family is the one of the impl
\* block (FuelProvider or MoveProvider) the calling method belongs to.
check_chain(trait, chains) ==
    /\ chains # {}
    /\ chains \subseteq SupportedChains[trait]

(* ----------------------- providers/http.rs ----------------------------- *)

\* (variant: the copy keeps only the first byte of the chunk)
to_vec_truncated(bytes) == [i \in 1..(IF Len(bytes) > 0 THEN 1 ELSE 0) |-> bytes[i]]

\* Bytes::to_vec: a Vec<u8> holding the same bytes in the same order
to_vec(bytes) == [i \in 1..Len(bytes) |-> bytes[i]]

\* (variant: a failed item becomes an empty data chunk)
StreamItem_swallowErr(item) ==
    IF item.kind = "chunk"
    THEN [kind |-> "Ok", bytes |-> to_vec(item.bytes)]
    ELSE [kind |-> "Ok", bytes |-> <<>>]

\* .map_err(Error::from).map_ok(|bytes| bytes.to_vec()) on one item of
\* bytes_stream()
StreamItem(item) ==
    IF item.kind = "chunk"
    THEN [kind |-> "Ok", bytes |-> to_vec(item.bytes)]
    ELSE [kind |-> "Err", bytes |-> <<>>]

\* HttpProvider::url: self.base_url.join(path).map_err(Error::from)
HttpProvider_url(path, joinOk) ==
    [ok |-> joinOk, url |-> [base |-> provider.base_url, path |-> path]]

\* (variant: a failed send() is tried a second time)
HttpProvider_request_retry(url, request, format, sendOk) ==
    LET get == [url |-> url, query |-> request, format |-> format,
                headers |-> provider.headers]
    IN  [result   |-> IF sendOk THEN "Ok" ELSE "ErrSend",
         outbound |-> IF sendOk THEN <<get>> ELSE <<get, get>>,
         log      |-> << IF sendOk THEN "send:ok" ELSE "send:err" >>]

\* HttpProvider::request: one GET of url by self.inner (which adds its
\* default headers) with the request's fields and the format as query
\* parameters; the call fails when send() fails
HttpProvider_request(url, request, format, sendOk) ==
    [result   |-> IF sendOk THEN "Ok" ELSE "ErrSend",
     outbound |-> << [url |-> url, query |-> request, format |-> format,
                      headers |-> provider.headers] >>,
     log      |-> << IF sendOk THEN "send:ok" ELSE "send:err" >>]

\* (variant: .error_for_status()? is in force)
Answered_errorForStatus(r, code) ==
    IF code >= 400
    THEN [result |-> "ErrStatus", outbound |-> r.outbound,
          log |-> r.log \o <<"status:err">>]
    ELSE r

\* what HttpProvider::request makes of the response send() returned, r
\* being the call so far: the response goes to bytes_stream() whatever its
\* status (.error_for_status()? is commented out)
Answered(r, code) == r

\* (variant: the BtcProvider methods leave request.chains alone)
HttpRequestArg_noOverride(trait, name, request) == request

\* (variant: the BtcProvider methods send a fresh request for BTC)
HttpRequestArg_fresh(trait, name, request) ==
    IF trait = "BtcProvider"
    THEN [chains |-> {"BTC"}, from_block |-> Unbounded,
          to_block |-> Unbounded]
    ELSE request

\* the request a capability method of HttpProvider hands to self.request:
\* the BtcProvider methods first overwrite request.chains
HttpRequestArg(trait, name, request) ==
    IF trait = "BtcProvider"
    THEN [request EXCEPT !.chains = {"BTC"}]
    ELSE request

\* (variant: deltas mode forces the newline-delimited format)
HttpProvider_call_deltas(trait, name, request, format, deltas, joinOk, sendOk) ==
    LET u == HttpProvider_url(HttpPath[trait][name], joinOk)
    IN  IF ~u.ok
        THEN [result |-> "ErrUrl", outbound |-> <<>>, log |-> <<"url:err">>]
        ELSE LET r == HttpProvider_request(
                          u.url, HttpRequestArg(trait, name, request),
                          IF deltas THEN "JsonStream" ELSE format, sendOk)
             IN  [r EXCEPT !.log = <<"url:ok">> \o @]

\* a capability method of HttpProvider: self.url(PATH)?, then
\* self.request(url, request, format).await; the bool parameter is unused
HttpProvider_call(trait, name, request, format, deltas, joinOk, sendOk) ==
    LET u == HttpProvider_url(HttpPath[trait][name], joinOk)
    IN  IF ~u.ok
        THEN [result |-> "ErrUrl", outbound |-> <<>>, log |-> <<"url:err">>]
        ELSE LET r == HttpProvider_request(
                          u.url, HttpRequestArg(trait, name, request),
                          format, sendOk)
             IN  [r EXCEPT !.log = <<"url:ok">> \o @]

\* HttpProvider::get_status_by_format: self.url(STATUS_PATH)?, then
\* self.request(url, (), format).await
HttpProvider_get_status_by_format(format, joinOk, sendOk) ==
    LET u == HttpProvider_url(STATUS_PATH, joinOk)
    IN  IF ~u.ok
        THEN [result |-> "ErrUrl", outbound |-> <<>>, log |-> <<"url:err">>]
        ELSE LET r == HttpProvider_request(u.url, Unit, format, sendOk)
             IN  [r EXCEPT !.log = <<"url:ok">> \o @]

(* ------------------------- core/client.rs ------------------------------ *)

\* serde_json::from_slice::<Status>: the slice must hold exactly one
\* document, whitespace aside
from_slice_Status(bytes) ==
    LET doc == SelectSeq(bytes, LAMBDA b : b # 3)
    IN  [ok |-> doc = <<1, 2>>, status |-> IF doc = <<1, 2>> THEN doc ELSE <<>>]

\* ResponseError::map_stream on one item of the raw stream
map_stream(item) == item

\* (variant: a chunk that does not decode yields the default Status)
StatusRecord_lenient(item) ==
    IF item.kind = "Err"
    THEN [kind |-> "Err", status |-> <<>>]
    ELSE [kind |-> "Status", status |-> from_slice_Status(item.bytes).status]

\* the closure Client::get_status maps over the stream:
\* chunk_result.and_then(|chunk| Ok(serde_json::from_slice(&chunk)?))
StatusRecord(item) ==
    IF item.kind = "Err"
    THEN [kind |-> "Err", status |-> <<>>]
    ELSE IF from_slice_Status(item.bytes).ok
    THEN [kind |-> "Status", status |-> from_slice_Status(item.bytes).status]
    ELSE [kind |-> "DecodeErr", status |-> <<>>]

\* one invocation of a capability method of the inner provider
InnerCall(trait, name, request, format, deltas) ==
    [trait |-> trait, name |-> name, request |-> request,
     format |-> format, deltas |-> deltas]

\* (variant: every method rejects an empty chains set)
Client_call_rejectEmpty(trait, name, request, format, deltas, joinOk, sendOk) ==
    IF name \notin ClientMethods(trait)
    THEN [result |-> "Unforwarded", innerCalls |-> <<>>,
          innerResult |-> "None", outbound |-> <<>>, log |-> <<>>]
    ELSE IF \/ request.chains = {}
            \/ Validates(trait, name) /\ ~check_chain(trait, request.chains)
    THEN [result |-> "ErrValidation", innerCalls |-> <<>>,
          innerResult |-> "None", outbound |-> <<>>,
          log |-> <<"check_chain:err">>]
    ELSE LET h == HttpProvider_call(trait, InnerMethod(trait, name),
                                    request, format, deltas, joinOk, sendOk)
         IN  [result      |-> h.result,
              innerCalls  |-> << InnerCall(trait, InnerMethod(trait, name),
                                           request, format, deltas) >>,
              innerResult |-> h.result,
              outbound    |-> h.outbound,
              log         |-> (IF Validates(trait, name)
                               THEN <<"check_chain:ok">> ELSE <<>>)
                              \o <<"inner">> \o h.log]

\* a capability method called on Client<HttpProvider>.  A method that
\* Client<T> has no forwarding body for never reaches self.inner.
Client_call(trait, name, request, format, deltas, joinOk, sendOk) ==
    IF name \notin ClientMethods(trait)
    THEN [result |-> "Unforwarded", innerCalls |-> <<>>,
          innerResult |-> "None", outbound |-> <<>>, log |-> <<>>]
    ELSE IF Validates(trait, name) /\ ~check_chain(trait, request.chains)
    THEN [result |-> "ErrValidation", innerCalls |-> <<>>,
          innerResult |-> "None", outbound |-> <<>>,
          log |-> <<"check_chain:err">>]
    ELSE LET h == HttpProvider_call(trait, InnerMethod(trait, name),
                                    request, format, deltas, joinOk, sendOk)
         IN  [result      |-> h.result,
              innerCalls  |-> << InnerCall(trait, InnerMethod(trait, name),
                                           request, format, deltas) >>,
              innerResult |-> h.result,
              outbound    |-> h.outbound,
              log         |-> (IF Validates(trait, name)
                               THEN <<"check_chain:ok">> ELSE <<>>)
                              \o <<"inner">> \o h.log]

\* Client::get_status on Client<HttpProvider>:
\* self.inner.get_status_by_format(Format::JsonStream).await?
Client_get_status(joinOk, sendOk) ==
    LET h == HttpProvider_get_status_by_format("JsonStream", joinOk, sendOk)
    IN  [result      |-> h.result,
         innerCalls  |-> << InnerCall("Provider", "get_status_by_format",
                                      Unit, "JsonStream", FALSE) >>,
         innerResult |-> h.result,
         outbound    |-> h.outbound,
         log         |-> <<"inner">> \o h.log]

(* ----------------------------- actions --------------------------------- *)

NoCall ==
    [trait |-> "none", name |-> "none",
     request |-> [chains |-> {}, from_block |-> Unbounded,
                  to_block |-> Unbounded],
     format |-> "none", deltas |-> FALSE]

\* (variant: the username alone is enough for an Authorization header)
try_new_userOnly(endpoint, is_secure, username, password) ==
    [ok |-> endpoint # "",
     provider |->
        [base_url   |-> [scheme |-> IF is_secure THEN "https" ELSE "http",
                         endpoint |-> endpoint, path |-> API_PATH],
         https_only |-> is_secure,
         headers    |->
            IF username # <<>>
            THEN << [name |-> "authorization", scheme |-> "Basic",
                     base64 |-> <<username[1], ":",
                                  IF password # <<>> THEN password[1]
                                                     ELSE "">>] >>
            ELSE <<>>]]

\* what HttpProvider::try_new builds: the base_url and the default headers
\* of the reqwest client, which carry Authorization only when both the
\* username and the password are given
try_new(endpoint, is_secure, username, password) ==
    [ok |-> endpoint # "",
     provider |->
        [base_url   |-> [scheme |-> IF is_secure THEN "https" ELSE "http",
                         endpoint |-> endpoint, path |-> API_PATH],
         https_only |-> is_secure,
         headers    |->
            IF username # <<>> /\ password # <<>>
            THEN << [name |-> "authorization", scheme |-> "Basic",
                     base64 |-> <<username[1], ":", password[1]>>] >>
            ELSE <<>>]]

\* the provider before try_new has run
NoProvider ==
    [base_url   |-> [scheme |-> "", endpoint |-> "", path |-> ""],
     https_only |-> FALSE,
     headers    |-> <<>>]

\* no call in progress
NoCallInProgress ==
    /\ entry = "none"
    /\ call = NoCall
    /\ innerCalls = <<>>
    /\ innerResult = "None"
    /\ outbound = <<>>
    /\ result = "None"
    /\ log = <<>>
    /\ held = 0
    /\ wire = <<>>
    /\ delivered = <<>>
    /\ records = <<>>

\* a correlation identifier no operation has used
FreeSlot ==
    [state |-> "free", deltas |-> FALSE, pushed |-> 0, closed |-> FALSE,
     got |-> <<>>]

\* no raw_request made
NoRequest ==
    [call |-> <<>>, inner |-> <<>>, innerResult |-> "None",
     result |-> "None", id |-> 0]

\* a connection that has carried no operation
WsInit ==
    /\ wsNextId = 1
    /\ wsSlots = [id \in 1..MaxOps |-> FreeSlot]
    /\ wsInbound = <<>>
    /\ wsLast = NoRequest

\* no Mira request built
NoMira ==
    [step |-> "none", type |-> "", how |-> "", input |-> <<>>, ok |-> TRUE,
     request |-> <<>>, wire |-> <<>>, back |-> [ok |-> TRUE, request |-> <<>>]]

\* the arguments of one try_new
NewArgs(endpoint, is_secure, username, password) ==
    [endpoint |-> endpoint, is_secure |-> is_secure, username |-> username,
     password |-> password]

\* a provider built without credentials, wrapped in a Client, no call made
Init ==
    /\ pc = "idle"
    /\ built = NewArgs("endpoint", TRUE, <<>>, <<>>)
    /\ provider = try_new("endpoint", TRUE, <<>>, <<>>).provider
    /\ NoCallInProgress
    /\ WsInit
    /\ mira = NoMira
    /\ status = 0

\* (variant: a connection stays reserved once a GET was attempted)
Returned_leak(r) ==
    /\ result' = r.result
    /\ outbound' = r.outbound
    /\ log' = r.log
    /\ pc' = IF r.result = "Ok" THEN "streaming" ELSE "failed"
    /\ held' = IF r.outbound # <<>> THEN 1 ELSE 0
    /\ wire' = <<>>
    /\ delivered' = <<>>
    /\ records' = <<>>
    /\ UNCHANGED <<provider, built, wsVars, mira>>

\* the state a call that returned r leaves the caller in
Returned(r) ==
    /\ result' = r.result
    /\ outbound' = r.outbound
    /\ log' = r.log
    /\ pc' = IF r.result = "Ok" THEN "streaming" ELSE "failed"
    /\ held' = IF r.result = "Ok" THEN 1 ELSE 0
    /\ wire' = <<>>
    /\ delivered' = <<>>
    /\ records' = <<>>
    /\ UNCHANGED <<provider, built, wsVars, mira>>

\* the caller calls a capability method on Client<HttpProvider>
ClientCall ==
    /\ pc = "idle"
    /\ \E trait \in Traits : \E name \in HttpMethods(trait) :
       \E request \in Requests, format \in Formats, deltas \in BOOLEAN,
          joinOk \in BOOLEAN, sendOk \in BOOLEAN :
         LET r == Client_call(trait, name, request, format, deltas,
                              joinOk, sendOk)
         IN  /\ entry' = "Client"
             /\ call' = InnerCall(trait, name, request, format, deltas)
             /\ innerCalls' = r.innerCalls
             /\ innerResult' = r.innerResult
             /\ Returned(r)
    /\ UNCHANGED status

\* the caller calls a capability method on a bare HttpProvider
HttpCall ==
    /\ pc = "idle"
    /\ \E trait \in Traits : \E name \in HttpMethods(trait) :
       \E request \in Requests, format \in Formats, deltas \in BOOLEAN,
          joinOk \in BOOLEAN, sendOk \in BOOLEAN :
         LET r == HttpProvider_call(trait, name, request, format, deltas,
                                    joinOk, sendOk)
         IN  /\ entry' = "HttpProvider"
             /\ call' = InnerCall(trait, name, request, format, deltas)
             /\ innerCalls' = <<>>
             /\ innerResult' = "None"
             /\ Returned(r)
    /\ UNCHANGED status

\* the caller calls a capability method on a bare HttpProvider and, when
\* send() succeeds, the server answers with some status
HttpCallAnswered ==
    /\ pc = "idle"
    /\ \E trait \in Traits : \E name \in HttpMethods(trait) :
       \E request \in StatusRequests, format \in Formats, deltas \in BOOLEAN,
          joinOk \in BOOLEAN, sendOk \in BOOLEAN, code \in Statuses :
         LET r == HttpProvider_call(trait, name, request, format, deltas,
                                    joinOk, sendOk)
         IN  /\ entry' = "HttpProvider"
             /\ call' = InnerCall(trait, name, request, format, deltas)
             /\ innerCalls' = <<>>
             /\ innerResult' = "None"
             /\ status' = IF r.result = "Ok" THEN code ELSE 0
             /\ Returned(IF r.result = "Ok" THEN Answered(r, code) ELSE r)

\* the caller calls Client::get_status on Client<HttpProvider>
ClientGetStatus ==
    /\ pc = "idle"
    /\ \E joinOk \in BOOLEAN, sendOk \in BOOLEAN :
         LET r == Client_get_status(joinOk, sendOk)
         IN  /\ entry' = "Client"
             /\ call' = InnerCall("Provider", "get_status", Unit, "none",
                                  FALSE)
             /\ innerCalls' = r.innerCalls
             /\ innerResult' = r.innerResult
             /\ Returned(r)
    /\ UNCHANGED status

\* the caller calls get_status_by_format on a bare HttpProvider
HttpGetStatus ==
    /\ pc = "idle"
    /\ \E format \in Formats, joinOk \in BOOLEAN, sendOk \in BOOLEAN :
         LET r == HttpProvider_get_status_by_format(format, joinOk, sendOk)
         IN  /\ entry' = "HttpProvider"
             /\ call' = InnerCall("Provider", "get_status_by_format", Unit,
                                  format, FALSE)
             /\ innerCalls' = <<>>
             /\ innerResult' = "None"
             /\ Returned(r)
    /\ UNCHANGED status

\* the stream the caller holds is the one Client::get_status returned
IsStatusStream == entry = "Client" /\ call.name = "get_status"

\* one poll of the stream the caller holds, the response body yielding item:
\* the item passes through the adapters of HttpProvider::request and, for
\* Client::get_status, through map_stream and the decoding closure
Yield(item) ==
    /\ wire' = Append(wire, item)
    /\ delivered' = Append(delivered, StreamItem(item))
    /\ records' = IF IsStatusStream
                  THEN Append(records,
                              StatusRecord(map_stream(StreamItem(item))))
                  ELSE records

\* the caller polls the stream and the response body yields a data chunk
PollChunk ==
    /\ pc = "streaming"
    /\ Len(wire) < MaxBody
    /\ \E b \in ChunkBytes : Yield([kind |-> "chunk", bytes |-> b])
    /\ UNCHANGED <<pc, provider, built, entry, call, innerCalls, innerResult,
                   outbound, result, log, held, wsVars, mira, status>>

\* the caller polls the stream and the response body fails (the transport
\* yields nothing after a failure and gives up the connection)
PollError ==
    /\ pc = "streaming"
    /\ Yield([kind |-> "error", bytes |-> <<>>])
    /\ pc' = "errored"
    /\ held' = 0
    /\ UNCHANGED <<provider, built, entry, call, innerCalls, innerResult, outbound,
                   result, log, wsVars, mira, status>>

\* the caller polls the stream and the response body has ended
PollEnd ==
    /\ pc \in {"streaming", "errored"}
    /\ pc' = "drained"
    /\ held' = 0
    /\ UNCHANGED <<provider, built, entry, call, innerCalls, innerResult, outbound,
                   result, log, wire, delivered, records, wsVars, mira, status>>

\* the caller has observed the failure of the call
ObserveFailure ==
    /\ pc = "failed"
    /\ pc' = "idle"
    /\ entry' = "none"
    /\ call' = NoCall
    /\ innerCalls' = <<>>
    /\ innerResult' = "None"
    /\ outbound' = <<>>
    /\ result' = "None"
    /\ log' = <<>>
    /\ UNCHANGED <<provider, built, held, wire, delivered, records, wsVars, mira, status>>

\* (variant: the connection of a dropped stream stays in use)
DropStream_leak ==
    /\ pc \in {"streaming", "errored", "drained"}
    /\ pc' = "idle"
    /\ entry' = "none"
    /\ call' = NoCall
    /\ innerCalls' = <<>>
    /\ innerResult' = "None"
    /\ outbound' = <<>>
    /\ result' = "None"
    /\ log' = IF pc = "streaming" THEN <<"drop">> ELSE <<>>
    /\ held' = held
    /\ wire' = <<>>
    /\ delivered' = <<>>
    /\ records' = <<>>
    /\ UNCHANGED <<provider, built, wsVars, mira, status>>

\* the caller drops the stream, drained or not: the stream owns the
\* response, so the response and its connection go with it (the log keeps
\* that the stream was dropped while the body had not ended)
DropStream ==
    /\ pc \in {"streaming", "errored", "drained"}
    /\ pc' = "idle"
    /\ entry' = "none"
    /\ call' = NoCall
    /\ innerCalls' = <<>>
    /\ innerResult' = "None"
    /\ outbound' = <<>>
    /\ result' = "None"
    /\ log' = IF pc = "streaming" THEN <<"drop">> ELSE <<>>
    /\ held' = 0
    /\ wire' = <<>>
    /\ delivered' = <<>>
    /\ records' = <<>>
    /\ UNCHANGED <<provider, built, wsVars, mira, status>>

Next ==
    \/ ClientCall
    \/ HttpCall
    \/ ClientGetStatus
    \/ HttpGetStatus
    \/ PollChunk
    \/ PollError
    \/ PollEnd
    \/ ObserveFailure
    \/ DropStream

Spec == Init /\ [][Next]_vars

\* calls on a bare HttpProvider, the status of each response followed
NextStatus ==
    \/ HttpCallAnswered
    \/ PollChunk
    \/ PollError
    \/ PollEnd
    \/ ObserveFailure
    \/ DropStream

SpecStatus == Init /\ [][NextStatus]_vars

\* no provider constructed yet
InitNew ==
    /\ pc = "new"
    /\ built = NewArgs("", FALSE, <<>>, <<>>)
    /\ provider = NoProvider
    /\ NoCallInProgress
    /\ WsInit
    /\ mira = NoMira
    /\ status = 0

\* the caller constructs the provider: HttpProvider::try_new, then
\* Client::new around it when it succeeded
TryNew ==
    /\ pc = "new"
    /\ \E endpoint \in Endpoints, is_secure \in BOOLEAN,
          username \in Credentials, password \in Passwords :
         LET r == try_new(endpoint, is_secure, username, password)
         IN  /\ built' = NewArgs(endpoint, is_secure, username, password)
             /\ provider' = IF r.ok THEN r.provider ELSE NoProvider
             /\ pc' = IF r.ok THEN "idle" ELSE "unbuilt"
    /\ UNCHANGED <<entry, call, innerCalls, innerResult, outbound, result,
                   log, held, wire, delivered, records, wsVars, mira, status>>

\* construction, then calls; the streams of the calls are dropped unpolled
NextNew ==
    \/ TryNew
    \/ ClientCall
    \/ HttpCall
    \/ ClientGetStatus
    \/ HttpGetStatus
    \/ ObserveFailure
    \/ DropStream

SpecNew == InitNew /\ [][NextNew]_vars

(* ------------------------ streaming transport -------------------------- *)

\* the arguments of one request on the streaming transport
WsArgs(operation, params, format, deltas) ==
    [operation |-> operation, params |-> params, format |-> format,
     deltas |-> deltas]

\* WsProvider::request: one outbound frame carrying the operation tag, the
\* serialized params, the format and deltas; the call fails when the frame
\* cannot be written
WsProvider_request(operation, params, format, deltas, connOk) ==
    [result |-> IF connOk THEN "Ok" ELSE "ErrSend",
     frame  |-> WsArgs(operation, params, format, deltas)]

\* (variant: raw_request rejects an empty chains set before forwarding)
Client_raw_request_checked(operation, params, format, deltas, connOk) ==
    IF params.chains = {}
    THEN [result |-> "ErrValidation", inner |-> <<>>, innerResult |-> "None"]
    ELSE LET r == WsProvider_request(operation, params, format, deltas,
                                     connOk)
         IN  [result      |-> r.result,
              inner       |-> << r.frame >>,
              innerResult |-> r.result]

\* Client<WsProvider>::raw_request:
\* self.inner.request(operation, params, format, deltas).await
Client_raw_request(operation, params, format, deltas, connOk) ==
    LET r == WsProvider_request(operation, params, format, deltas, connOk)
    IN  [result      |-> r.result,
         inner       |-> << r.frame >>,
         innerResult |-> r.result]

\* the subscriptions whose stream the caller holds
WsHeld == {id \in 1..MaxOps : wsSlots[id].state \in {"open", "ended"}}

\* the n-th frame the remote side pushes for subscription id
WsFrame(id, n) ==
    [id |-> id, kind |-> "data", seq |-> n,
     phase |-> IF n <= Backfill THEN "backfill" ELSE "live"]

\* (variant: every inbound frame goes to the oldest open subscription)
WsRoute_first(frame) ==
    IF WsHeld = {} THEN 0
    ELSE CHOOSE id \in WsHeld : \A other \in WsHeld : id <= other

\* the subscription an inbound frame is handed to: the one its correlation
\* identifier names, when the caller still holds its stream (0: none)
WsRoute(frame) ==
    IF wsSlots[frame.id].state = "open" THEN frame.id ELSE 0

\* the caller makes a raw_request on Client<WsProvider>
WsRawRequest ==
    /\ wsNextId <= MaxOps
    /\ Cardinality(WsHeld) < MaxSubs
    /\ \E operation \in Operations, params \in WsParams, format \in Formats,
          deltas \in BOOLEAN, connOk \in BOOLEAN :
         LET r == Client_raw_request(operation, params, format, deltas,
                                     connOk)
         IN  /\ wsLast' = [call   |-> << WsArgs(operation, params, format,
                                                deltas) >>,
                           inner  |-> r.inner,
                           innerResult |-> r.innerResult,
                           result |-> r.result,
                           id     |-> IF r.result = "Ok" THEN wsNextId ELSE 0]
             /\ IF r.result = "Ok"
                THEN /\ wsSlots' = [wsSlots EXCEPT ![wsNextId] =
                                      [FreeSlot EXCEPT !.state = "open",
                                                       !.deltas = deltas]]
                     /\ wsNextId' = wsNextId + 1
                ELSE UNCHANGED <<wsSlots, wsNextId>>
    /\ UNCHANGED <<wsInbound, httpVars, mira, status>>

\* the remote side pushes the next frame of a subscription: the initial
\* result set, then, in deltas mode, live frames
WsRemotePush ==
    /\ Len(wsInbound) < MaxInflight
    /\ \E id \in WsHeld :
         /\ ~wsSlots[id].closed
         /\ wsSlots[id].pushed <
              (IF wsSlots[id].deltas THEN MaxFrames ELSE Backfill)
         /\ wsSlots' = [wsSlots EXCEPT ![id].pushed = @ + 1]
         /\ wsInbound' = Append(wsInbound,
                                WsFrame(id, wsSlots[id].pushed + 1))
    /\ UNCHANGED <<wsNextId, wsLast, httpVars, mira, status>>

\* the remote side ends a subscription
WsRemoteClose ==
    /\ Len(wsInbound) < MaxInflight
    /\ \E id \in WsHeld :
         /\ ~wsSlots[id].closed
         /\ wsSlots' = [wsSlots EXCEPT ![id].closed = TRUE]
         /\ wsInbound' = Append(wsInbound,
                                [WsFrame(id, 0) EXCEPT !.kind = "close"])
    /\ UNCHANGED <<wsNextId, wsLast, httpVars, mira, status>>

\* the transport hands the oldest inbound frame to the stream of the call
\* it is correlated to, or discards it when that stream is gone
WsDeliver ==
    /\ wsInbound # <<>>
    /\ LET frame == Head(wsInbound)
           to == WsRoute(frame)
       IN  wsSlots' =
             IF to = 0 THEN wsSlots
             ELSE IF frame.kind = "close"
             THEN [wsSlots EXCEPT ![to].state = "ended"]
             ELSE [wsSlots EXCEPT ![to].got = Append(@, frame)]
    /\ wsInbound' = Tail(wsInbound)
    /\ UNCHANGED <<wsNextId, wsLast, httpVars, mira, status>>

\* the caller drops the stream of a subscription: the transport stops
\* forwarding to it and tells the remote side, which stops pushing
WsDrop ==
    /\ \E id \in WsHeld :
         wsSlots' = [wsSlots EXCEPT ![id] =
                        [FreeSlot EXCEPT !.state = "dropped",
                                         !.closed = TRUE]]
    /\ UNCHANGED <<wsNextId, wsInbound, wsLast, httpVars, mira, status>>

NextWs ==
    \/ WsRawRequest
    \/ WsRemotePush
    \/ WsRemoteClose
    \/ WsDeliver
    \/ WsDrop

SpecWs == Init /\ [][NextWs]_vars

\* no operation made on the streaming transport
WsQuiet == wsLast = NoRequest

\* no call in progress on the request/response transport, the last stream
\* dropped while its body had not ended
HttpDropped == pc = "idle" /\ log = <<"drop">>

\* a caller of both transports: calls on the request/response transport,
\* then, a stream of it dropped, operations on the streaming transport
NextBoth ==
    \/ WsQuiet /\ Next
    \/ HttpDropped /\ NextWs

SpecBoth == Init /\ [][NextBoth]_vars

(* --------------------------- Mira requests ----------------------------- *)

\* H256 values of the address and asset filters
Hashes == {"h1", "h2"}

\* chain identifiers a Mira request is built with
MiraChains == {"FUEL", "ETH"}

\* the fields of the three Mira request structs, in declaration order, with
\* their serde attributes: alias, default (a named function, Default, or
\* none), serialize_with = serialize_comma_separated, skip_serializing_if =
\* HashSet::is_empty
MiraStruct ==
       "GetMiraPoolsRequest" :>
      << [name |-> "chains", alias |-> "", kind |-> "set",
          default |-> "default_chains", comma |-> TRUE, skip_empty |-> TRUE],
         [name |-> "from_block", alias |-> "", kind |-> "bound",
          default |-> "Default", comma |-> FALSE, skip_empty |-> FALSE],
         [name |-> "to_block", alias |-> "", kind |-> "bound",
          default |-> "Default", comma |-> FALSE, skip_empty |-> FALSE],
         [name |-> "pool_address__in", alias |-> "", kind |-> "set",
          default |-> "Default", comma |-> TRUE, skip_empty |-> TRUE],
         [name |-> "asset0_address__in", alias |-> "asset0__in", kind |-> "set",
          default |-> "Default", comma |-> TRUE, skip_empty |-> TRUE],
         [name |-> "asset1_address__in", alias |-> "asset1__in", kind |-> "set",
          default |-> "Default", comma |-> TRUE, skip_empty |-> TRUE],
         [name |-> "assets__in", alias |-> "", kind |-> "set",
          default |-> "Default", comma |-> TRUE, skip_empty |-> TRUE] >>
    @@ "GetMiraLiquidityRequest" :>
      << [name |-> "chains", alias |-> "", kind |-> "set",
          default |-> "default_chains", comma |-> TRUE, skip_empty |-> TRUE],
         [name |-> "from_block", alias |-> "", kind |-> "bound",
          default |-> "Default", comma |-> FALSE, skip_empty |-> FALSE],
         [name |-> "to_block", alias |-> "", kind |-> "bound",
          default |-> "Default", comma |-> FALSE, skip_empty |-> FALSE],
         [name |-> "pool_address__in", alias |-> "", kind |-> "set",
          default |-> "Default", comma |-> TRUE, skip_empty |-> TRUE],
         [name |-> "asset0_address__in", alias |-> "asset0__in", kind |-> "set",
          default |-> "Default", comma |-> TRUE, skip_empty |-> TRUE],
         [name |-> "asset1_address__in", alias |-> "asset1__in", kind |-> "set",
          default |-> "Default", comma |-> TRUE, skip_empty |-> TRUE],
         [name |-> "assets__in", alias |-> "", kind |-> "set",
          default |-> "Default", comma |-> TRUE, skip_empty |-> TRUE] >>
    @@ "GetMiraSwapsRequest" :>
      << [name |-> "chains", alias |-> "", kind |-> "set",
          default |-> "default_chains", comma |-> TRUE, skip_empty |-> TRUE],
         [name |-> "from_block", alias |-> "", kind |-> "bound",
          default |-> "Default", comma |-> FALSE, skip_empty |-> FALSE],
         [name |-> "to_block", alias |-> "", kind |-> "bound",
          default |-> "Default", comma |-> FALSE, skip_empty |-> FALSE],
         [name |-> "pool_address__in", alias |-> "", kind |-> "set",
          default |-> "Default", comma |-> TRUE, skip_empty |-> TRUE],
         [name |-> "asset0_address__in", alias |-> "asset0__in", kind |-> "set",
          default |-> "Default", comma |-> TRUE, skip_empty |-> TRUE],
         [name |-> "asset1_address__in", alias |-> "asset1__in", kind |-> "set",
          default |-> "Default", comma |-> TRUE, skip_empty |-> TRUE],
         [name |-> "assets__in", alias |-> "", kind |-> "set",
          default |-> "Default", comma |-> TRUE, skip_empty |-> TRUE] >>

MiraTypes == DOMAIN MiraStruct

MiraFields(type) == {MiraStruct[type][i] : i \in DOMAIN MiraStruct[type]}

\* the values of a Mira request struct (all fields are pub)
MiraRequests ==
    [chains : SUBSET MiraChains, from_block : Bounds, to_block : Bounds,
     pool_address__in : SUBSET Hashes, asset0_address__in : SUBSET Hashes,
     asset1_address__in : SUBSET Hashes, assets__in : SUBSET Hashes]

\* (variant: no default chain)
default_chains_none == {}

\* fn default_chains(): HashSet::from([ChainId::FUEL])
default_chains == {"FUEL"}

\* impl Default for each of the three structs
Default_default ==
       "GetMiraPoolsRequest" :>
       [chains |-> default_chains,
        from_block |-> Unbounded,
        to_block |-> Unbounded,
        pool_address__in |-> {},
        asset0_address__in |-> {},
        asset1_address__in |-> {},
        assets__in |-> {}]
    @@ "GetMiraLiquidityRequest" :>
       [chains |-> default_chains,
        from_block |-> Unbounded,
        to_block |-> Unbounded,
        pool_address__in |-> {},
        asset0_address__in |-> {},
        asset1_address__in |-> {},
        assets__in |-> {}]
    @@ "GetMiraSwapsRequest" :>
       [chains |-> default_chains,
        from_block |-> Unbounded,
        to_block |-> Unbounded,
        pool_address__in |-> {},
        asset0_address__in |-> {},
        asset1_address__in |-> {},
        assets__in |-> {}]

\* a serialized value: a string of tokens, a sequence of items, or a number
StrValue(tokens) == [kind |-> "str", tokens |-> tokens, n |-> 0]

SeqValue(items) == [kind |-> "seq", tokens |-> items, n |-> 0]

IntValue(n) == [kind |-> "int", tokens |-> <<>>, n |-> n]

\* the orders in which a HashSet may iterate over its elements
Orders(S) == {seq \in [1..Cardinality(S) -> S] : {seq[i] : i \in DOMAIN seq} = S}

RECURSIVE Join(_)
\* the elements of seq with a comma between each two
Join(seq) ==
    IF Len(seq) <= 1 THEN seq ELSE <<seq[1], ",">> \o Join(Tail(seq))

\* utils::serialize_comma_separated: the elements, as the set iterates over
\* them, joined by commas into one string
serialize_comma_separated(order) == StrValue(Join(order))

\* a field the serializer leaves out
Skipped == [name |-> "", value |-> StrValue(<<>>)]

IsEmitted(item) == item.name # ""

\* what serializing one field emits: nothing for an empty set with
\* skip_serializing_if, nothing for an unbounded Bound
MiraEntry(field, request, orders) ==
    IF field.kind = "set"
    THEN IF field.skip_empty /\ request[field.name] = {}
         THEN Skipped
         ELSE [name  |-> field.name,
               value |-> IF field.comma
                         THEN serialize_comma_separated(orders[field.name])
                         ELSE SeqValue(orders[field.name])]
    ELSE IF request[field.name].bounded
         THEN [name |-> field.name, value |-> IntValue(request[field.name].height)]
         ELSE Skipped

\* (variant: an empty set is serialized like any other)
Mira_serialize_keepEmpty(type, request, orders) ==
    [i \in DOMAIN MiraStruct[type] |->
        LET field == MiraStruct[type][i]
        IN  IF field.kind = "set"
            THEN [name  |-> field.name,
                  value |-> StrValue(Join(orders[field.name]))]
            ELSE [name  |-> field.name,
                  value |-> IntValue(request[field.name].height)]]

\* derive(Serialize): the fields in declaration order
Mira_serialize(type, request, orders) ==
    SelectSeq([i \in DOMAIN MiraStruct[type] |->
                   MiraEntry(MiraStruct[type][i], request, orders)],
              IsEmitted)

\* the value of a field the input does not carry
FieldDefault(field) ==
    IF field.default = "default_chains" THEN default_chains
    ELSE IF field.kind = "set" THEN {}
    ELSE Unbounded

\* the entries of the input that name a field, by its name or its alias
MiraLookup(field, encoded) ==
    SelectSeq(encoded, LAMBDA item : item.name \in {field.name, field.alias} \ {""})

\* what deserializing one field yields: its default when the input omits
\* it, else the value read; a HashSet reads a sequence and nothing else (no
\* field has deserialize_with)
MiraDecodeField(field, encoded) ==
    LET found == MiraLookup(field, encoded)
    IN  IF found = <<>>
        THEN [ok |-> field.default # "none", value |-> FieldDefault(field)]
        ELSE IF Len(found) > 1
        THEN [ok |-> FALSE, value |-> FieldDefault(field)]
        ELSE IF field.kind = "set"
        THEN IF found[1].value.kind = "seq"
             THEN [ok |-> TRUE,
                   value |-> {found[1].value.tokens[i] :
                                 i \in DOMAIN found[1].value.tokens}]
             ELSE [ok |-> FALSE, value |-> {}]
        ELSE IF found[1].value.kind = "int"
             THEN [ok |-> TRUE,
                   value |-> [bounded |-> TRUE, height |-> found[1].value.n]]
             ELSE [ok |-> FALSE, value |-> Unbounded]

\* derive(Deserialize)
Mira_deserialize(type, encoded) ==
    [ok      |-> \A field \in MiraFields(type) : MiraDecodeField(field, encoded).ok,
     request |-> [name \in {field.name : field \in MiraFields(type)} |->
                    MiraDecodeField(CHOOSE field \in MiraFields(type) :
                                        field.name = name, encoded).value]]

\* inputs a Mira request is deserialized from: each field given or omitted,
\* sets given as sequences, asset0 by its name or by its alias
MiraInputs ==
    {c \o b \o q \o a :
        c \in {<<>>,
               << [name |-> "chains", value |-> SeqValue(<<"FUEL">>)] >>,
               << [name |-> "chains", value |-> SeqValue(<<"ETH", "FUEL">>)] >>,
               << [name |-> "chains", value |-> SeqValue(<<>>)] >>},
        b \in {<<>>, << [name |-> "from_block", value |-> IntValue(1)] >>},
        q \in {<<>>,
               << [name |-> "pool_address__in", value |-> SeqValue(<<"h1">>)] >>},
        a \in {<<>>,
               << [name |-> "asset0_address__in", value |-> SeqValue(<<"h2">>)] >>,
               << [name |-> "asset0__in", value |-> SeqValue(<<"h2">>)] >>}}

\* a Mira request is built by Default::default()
MiraDefault ==
    /\ mira.step = "none"
    /\ \E type \in MiraTypes :
         mira' = [NoMira EXCEPT !.step = "built", !.type = type,
                                !.how = "default",
                                !.request = Default_default[type]]
    /\ UNCHANGED <<httpVars, wsVars, status>>

\* a Mira request is built by deserializing an input
MiraFromInput ==
    /\ mira.step = "none"
    /\ \E type \in MiraTypes, input \in MiraInputs :
         LET d == Mira_deserialize(type, input)
         IN  mira' = [NoMira EXCEPT !.step = "built", !.type = type,
                                    !.how = "deserialize", !.input = input,
                                    !.ok = d.ok, !.request = d.request]
    /\ UNCHANGED <<httpVars, wsVars, status>>

\* a Mira request is built field by field
MiraLiteral ==
    /\ mira.step = "none"
    /\ \E type \in MiraTypes, request \in MiraRequests :
         mira' = [NoMira EXCEPT !.step = "built", !.type = type,
                                !.how = "literal", !.request = request]
    /\ UNCHANGED <<httpVars, wsVars, status>>

\* the request is serialized outward, each set iterating in some order
MiraSerialize ==
    /\ mira.step = "built"
    /\ mira.ok
    /\ \E o1 \in Orders(mira.request.chains),
          o2 \in Orders(mira.request.pool_address__in),
          o3 \in Orders(mira.request.asset0_address__in),
          o4 \in Orders(mira.request.asset1_address__in),
          o5 \in Orders(mira.request.assets__in) :
         mira' = [mira EXCEPT
                    !.step = "serialized",
                    !.wire = Mira_serialize(mira.type, mira.request,
                               [chains |-> o1, pool_address__in |-> o2,
                                asset0_address__in |-> o3,
                                asset1_address__in |-> o4,
                                assets__in |-> o5])]
    /\ UNCHANGED <<httpVars, wsVars, status>>

\* what was serialized is read back with the deserializer of the same type
MiraDecode ==
    /\ mira.step = "serialized"
    /\ mira' = [mira EXCEPT !.step = "decoded",
                            !.back = Mira_deserialize(mira.type, mira.wire)]
    /\ UNCHANGED <<httpVars, wsVars, status>>

NextMira ==
    \/ MiraDefault
    \/ MiraFromInput
    \/ MiraLiteral
    \/ MiraSerialize
    \/ MiraDecode

SpecMira == Init /\ [][NextMira]_vars

(* ---------------------------- properties ------------------------------- *)

\* the resource families Client<T> validates the chain set of
ChainScoped == {"FuelProvider", "MoveProvider"}

\* the call in progress was made on Client<T>, on a method it implements
OnClient ==
    /\ entry = "Client"
    /\ call.trait \in Traits
    /\ call.name \in ClientMethods(call.trait)

\* the call in progress reached a capability method of HttpProvider
ReachedHttp ==
    /\ call.trait \in Traits
    /\ entry = "HttpProvider" \/ innerCalls # <<>>

\* the call in progress as one invocation of the same-named inner method
SameCall ==
    InnerCall(call.trait, call.name, call.request, call.format, call.deltas)

\* the elements of a sequence, as a set
Elems(seq) == {seq[i] : i \in DOMAIN seq}

\* C1: a Fuel-family or Move-family method of Client<T> called with an
\* empty chains set returns a validation error as the result of the call
\* itself (no stream is returned, nothing is delivered), the inner provider
\* is not invoked and no outbound request is sent.
C1_EmptyChainsFailBeforeNetwork ==
    (OnClient /\ call.trait \in ChainScoped /\ call.request.chains = {})
        => /\ result = "ErrValidation"
           /\ pc = "failed"
           /\ innerCalls = <<>>
           /\ outbound = <<>>
           /\ delivered = <<>>

C1_Witness ==
    /\ OnClient
    /\ call.trait = "MoveProvider"
    /\ call.request.chains = {}
    /\ result = "ErrValidation"

C3_ValidCallForwardedOnce ==
    (/\ OnClient
     /\ call.trait \in ChainScoped
     /\ call.request.chains # {}
     /\ call.request.chains \subseteq SupportedChains[call.trait])
        => /\ innerCalls = << SameCall >>
           /\ log[1] = "check_chain:ok"
           /\ log[2] = "inner"
           /\ result = innerResult
           /\ result # "ErrValidation"

C3_Witness ==
    /\ OnClient
    /\ call.name = "get_fuel_mira_v1_pools_by_format"
    /\ call.request.chains = {"FUEL"}
    /\ call.deltas
    /\ innerCalls = << SameCall >>
    /\ result = "Ok"

\* C4: for ChainProvider, UniswapV2Provider, UniswapV3Provider,
\* CurveProvider and Erc20Provider, Client<T> validates nothing: whatever
\* the chains set, the empty one included, the call is forwarded once to
\* the same-named inner method with request, format and deltas unchanged
\* and is never rejected by the client.
C4_UnscopedFamiliesNotValidated ==
    (/\ OnClient
     /\ call.trait \in {"ChainProvider", "UniswapV2Provider",
                        "UniswapV3Provider", "CurveProvider",
                        "Erc20Provider"})
        => /\ innerCalls = << SameCall >>
           /\ result = innerResult
           /\ result # "ErrValidation"
           /\ log[1] = "inner"

C4_Witness ==
    /\ OnClient
    /\ call.trait = "Erc20Provider"
    /\ call.request.chains = {}
    /\ innerCalls = << SameCall >>
    /\ result = "Ok"

\* C5: a BTC call made through Client<HttpProvider> is never rejected by
\* validation, whatever its chains set, and the request of the outbound
\* call has chains = {BTC}.
C5_BtcChainsOverwritten ==
    (OnClient /\ call.trait = "BtcProvider")
        => /\ result # "ErrValidation"
           /\ innerCalls = << SameCall >>
           /\ \A i \in DOMAIN outbound : outbound[i].query.chains = {"BTC"}
           /\ ("url:ok" \in Elems(log) => outbound # <<>>)

C5_Witness ==
    /\ OnClient
    /\ call.trait = "BtcProvider"
    /\ call.request.chains = {"ETH", "FUEL"}
    /\ Len(outbound) = 1
    /\ outbound[1].query.chains = {"BTC"}

\* C6: every capability method HttpProvider implements, called on
\* Client<HttpProvider> with a request the client accepts, invokes the
\* same-named method of the inner provider, so that the client and the bare
\* HttpProvider send the same GETs and return the same result.
C6_EveryCapabilityForwarded ==
    (/\ entry = "Client"
     /\ call.trait \in Traits
     /\ call.name \in HttpMethods(call.trait)
     /\ result # "ErrValidation")
        => /\ innerCalls = << SameCall >>
           /\ \E joinOk \in BOOLEAN, sendOk \in BOOLEAN :
                LET bare == HttpProvider_call(call.trait, call.name,
                                call.request, call.format, call.deltas,
                                joinOk, sendOk)
                IN  bare.outbound = outbound /\ bare.result = result

\* C7: a capability call on HttpProvider sends at most one GET: exactly one
\* when self.url succeeded, carrying the path of the method, the request
\* handed to self.request and the format, and none when self.url failed;
\* no second GET is sent for the call after a failure.
C7_AtMostOneGet ==
    ReachedHttp
        => /\ Len(outbound) <= 1
           /\ "url:err" \in Elems(log) => outbound = <<>> /\ result = "ErrUrl"
           /\ "url:ok" \in Elems(log)
                => /\ Len(outbound) = 1
                   /\ outbound[1].url.path = HttpPath[call.trait][call.name]
                   /\ outbound[1].query =
                        HttpRequestArg(call.trait, call.name, call.request)
                   /\ outbound[1].format = call.format
           /\ "url:ok" \in Elems(log) \/ "url:err" \in Elems(log)

C7_Witness ==
    /\ entry = "HttpProvider"
    /\ call.name = "get_blocks_by_format"
    /\ result = "ErrSend"
    /\ Len(outbound) = 1

\* the outcome of self.url and of send() in the call in progress
JoinWasOk == "url:ok" \in Elems(log)

SendWasOk == "send:ok" \in Elems(log)

\* C8: on HttpProvider the deltas flag changes nothing: the call with the
\* flag negated, under the same outcome of self.url and send(), returns the
\* same result and sends the same GETs as the call in progress did.
C8_DeltasIgnored ==
    ReachedHttp
        => LET other == HttpProvider_call(call.trait, call.name,
                                          call.request, call.format,
                                          ~call.deltas, JoinWasOk, SendWasOk)
           IN  /\ other.outbound = outbound
               /\ other.result = result

C8_Witness ==
    /\ entry = "HttpProvider"
    /\ call.deltas
    /\ call.format = "JsonArray"
    /\ Len(outbound) = 1
    /\ pc = "drained"

\* the byte chunks of the data items of a sequence of items, in order
BytesOf(items, kind) ==
    LET data == SelectSeq(items, LAMBDA it : it.kind = kind)
    IN  [i \in 1..Len(data) |-> data[i].bytes]

\* C9: the stream of an HttpProvider call yields one element per item the
\* response body yielded, and once drained its data elements are exactly
\* the body's chunks, byte for byte, in the order the body yielded them.
C9_StreamYieldsBodyChunksInOrder ==
    /\ Len(delivered) = Len(wire)
    /\ pc = "drained" => BytesOf(delivered, "Ok") = BytesOf(wire, "chunk")

C9_Witness ==
    /\ pc = "drained"
    /\ Len(wire) = 3
    /\ \A i \in 1..3 : wire[i].kind = "chunk"
    /\ wire[1].bytes # wire[2].bytes
    /\ BytesOf(delivered, "Ok") = <<wire[1].bytes, wire[2].bytes, wire[3].bytes>>

C11_StatusDecodedPerChunk ==
    IsStatusStream
        => /\ innerCalls = << InnerCall("Provider", "get_status_by_format",
                                        Unit, "JsonStream", FALSE) >>
           /\ \A i \in DOMAIN outbound :
                /\ outbound[i].format = "JsonStream"
                /\ outbound[i].url.path = STATUS_PATH
           /\ Len(records) = Len(wire)
           /\ \A i \in DOMAIN records :
                /\ wire[i].kind = "error" => records[i].kind = "Err"
                /\ (wire[i].kind = "chunk" /\ wire[i].bytes = <<1, 2, 3>>)
                     => records[i] = [kind |-> "Status", status |-> <<1, 2>>]
                /\ (wire[i].kind = "chunk" /\ wire[i].bytes = <<1>>)
                     => records[i].kind = "DecodeErr"

C11_Witness ==
    /\ IsStatusStream
    /\ Len(records) = 3
    /\ records[1].kind = "Status"
    /\ records[2].kind = "DecodeErr"
    /\ records[3].kind = "Status"

\* the frames the remote side has pushed for subscription id, in order
WsPushed(id) == [n \in 1..wsSlots[id].pushed |-> WsFrame(id, n)]

\* seq is a prefix of full
IsPrefix(seq, full) ==
    /\ Len(seq) <= Len(full)
    /\ \A i \in DOMAIN seq : seq[i] = full[i]

\* C12: on the streaming transport the stream of a call receives only the
\* frames correlated to that call, in the order received: what it has
\* yielded is a prefix of what the remote side pushed for it, and once the
\* remote side has closed it, all of it (2 backfill frames, then 3 live
\* frames, for a deltas subscription pushed 5 frames), whatever a second
\* open subscription receives meanwhile.
C12_StreamGetsOnlyItsFrames ==
    \A id \in WsHeld :
        /\ IsPrefix(wsSlots[id].got, WsPushed(id))
        /\ wsSlots[id].state = "ended" => wsSlots[id].got = WsPushed(id)

C12_Witness ==
    \E a \in WsHeld, b \in WsHeld :
        /\ a # b
        /\ wsSlots[a].deltas
        /\ wsSlots[a].state = "ended"
        /\ Len(wsSlots[a].got) = 5
        /\ wsSlots[a].got[Backfill].phase = "backfill"
        /\ wsSlots[a].got[Backfill + 1].phase = "live"
        /\ Len(wsSlots[b].got) >= 1
        /\ wsSlots[b].state = "open"

\* C20: raw_request on Client<WsProvider> performs no chain validation: for
\* every operation and every params value, an empty or out-of-family chains
\* set included, the inner provider's request is invoked once with the
\* operation, params, format and deltas the caller gave, and its result is
\* the result of the call.
C20_RawRequestForwardsUnchecked ==
    wsLast.call # <<>>
        => /\ wsLast.inner = wsLast.call
           /\ wsLast.result = wsLast.innerResult
           /\ wsLast.result \in {"Ok", "ErrSend"}

C20_Witness ==
    /\ wsLast.call # <<>>
    /\ wsLast.call[1].operation = "GetFuelBlocks"
    /\ wsLast.call[1].params.chains = {}
    /\ wsLast.result = "Ok"
    /\ wsSlots[wsLast.id].state = "open"

C14_FailedCallRetainsNothing ==
    [][ /\ pc' = "failed"
          => /\ pc = "idle"
             /\ result' \in {"ErrValidation", "ErrUrl", "ErrSend",
                            "Unforwarded"}
             /\ provider' = provider
             /\ held' = 0 /\ held' = held
             /\ wire' = <<>> /\ delivered' = <<>> /\ records' = <<>>
        /\ pc = "failed"
          => /\ pc' = "idle"
             /\ provider' = provider
             /\ NoCallInProgress' ]_vars

C14_Witness ==
    /\ pc = "failed"
    /\ result = "ErrSend"
    /\ outbound # <<>>
    /\ held = 0
    /\ provider = try_new("endpoint", TRUE, <<>>, <<>>).provider

\* the set-valued fields of a Mira request
MiraSetFields(type) == {field \in MiraFields(type) : field.kind = "set"}

\* the entries of a serialized request under the name of a field
Emitted(name) == SelectSeq(mira.wire, LAMBDA item : item.name = name)

\* C15: a Mira request of any of the three types built with no explicit
\* chains, by Default::default() or by deserializing an input that omits
\* the chains field, has chains = {FUEL}, and every field an input omits
\* gets the value Default::default() gives it.
C15_DefaultChainsIsFuel ==
    (mira.step = "built" /\ mira.ok)
        => /\ mira.how = "default" => mira.request.chains = {"FUEL"}
           /\ mira.how = "deserialize"
                => \A field \in MiraFields(mira.type) :
                     MiraLookup(field, mira.input) = <<>>
                        => /\ mira.request[field.name] =
                                Default_default[mira.type][field.name]
                           /\ field.name = "chains"
                                => mira.request.chains = {"FUEL"}

C15_Witness ==
    /\ mira.step = "built"
    /\ mira.how = "deserialize"
    /\ mira.ok
    /\ mira.type = "GetMiraSwapsRequest"
    /\ \A i \in DOMAIN mira.input : mira.input[i].name # "chains"
    /\ \E i \in DOMAIN mira.input : mira.input[i].name = "asset0__in"
    /\ mira.request.chains = {"FUEL"}
    /\ mira.request.asset0_address__in = {"h2"}
    /\ mira.request.assets__in = {}

\* C16: in a serialized Mira request every set-valued field that is empty
\* is absent, every non-empty one appears once as one string, its elements
\* each once with a comma between each two, and no set-valued field is
\* emitted with an empty value.
C16_EmptySetsOmittedOthersCommaJoined ==
    mira.step = "serialized"
        => \A field \in MiraSetFields(mira.type) :
             LET set == mira.request[field.name]
                 out == Emitted(field.name)
             IN  /\ set = {} => out = <<>>
                 /\ set # {}
                      => /\ Len(out) = 1
                         /\ out[1].value.kind = "str"
                         /\ Len(out[1].value.tokens) = 2 * Cardinality(set) - 1
                         /\ \A i \in DOMAIN out[1].value.tokens :
                              IF i % 2 = 0
                              THEN out[1].value.tokens[i] = ","
                              ELSE out[1].value.tokens[i] \in set
                         /\ {out[1].value.tokens[i] :
                               i \in DOMAIN out[1].value.tokens} \ {","} = set
                 /\ \A i \in DOMAIN out : out[i].value.tokens # <<>>

C16_Witness ==
    /\ mira.step = "serialized"
    /\ mira.request.chains = {}
    /\ mira.request.pool_address__in = {"h1", "h2"}
    /\ mira.request.assets__in = {}
    /\ Emitted("chains") = <<>>
    /\ Emitted("pool_address__in") =
         << [name |-> "pool_address__in",
             value |-> StrValue(<<"h2", ",", "h1">>)] >>

\* C17 (as claimed): serializing a set-valued field of a Mira request and
\* reading the result back with the deserializer of the same type gives the
\* original set, for every set, the empty one included.
C17_RoundTripYieldsOriginalSet ==
    mira.step = "decoded"
        => /\ mira.back.ok
           /\ \A field \in MiraSetFields(mira.type) :
                mira.back.request[field.name] = mira.request[field.name]

\* C18: a provider constructed with both a username and a password sends
\* the Basic Authorization header of username:password, the one computed
\* by try_new, on every outbound call; constructed with either one absent
\* it sends no Authorization header on any call; construction fails only
\* on the endpoint, never on absent credentials.
C18_AuthHeaderIffBothCredentials ==
    /\ pc = "unbuilt" => built.endpoint = ""
    /\ pc \notin {"new", "unbuilt"}
         => LET both == built.username # <<>> /\ built.password # <<>>
            IN  /\ both => provider.headers =
                             << [name |-> "authorization", scheme |-> "Basic",
                                 base64 |-> <<built.username[1], ":",
                                              built.password[1]>>] >>
                /\ ~both => provider.headers = <<>>
                /\ \A i \in DOMAIN outbound :
                     outbound[i].headers = provider.headers

C18_Witness ==
    /\ pc = "streaming"
    /\ built.username = <<"user">> /\ built.password = <<"secret">>
    /\ ~built.is_secure
    /\ outbound # <<>>
    /\ outbound[1].headers # <<>>
    /\ outbound[1].headers[1].base64 = <<"user", ":", "secret">>
    /\ outbound[1].url.base.scheme = "http"

\* whether a method of Client<T> answers a request with a validation error
Rejects(trait, name, request) ==
    Client_call(trait, name, request, "JsonStream", FALSE, TRUE, TRUE).result
        = "ErrValidation"

C22_BtcOverrideTouchesOnlyChains ==
    (ReachedHttp /\ call.trait = "BtcProvider" /\ outbound # <<>>)
        => /\ DOMAIN outbound[1].query = DOMAIN call.request
           /\ \A field \in DOMAIN call.request \ {"chains"} :
                outbound[1].query[field] = call.request[field]
           /\ outbound[1].format = call.format
           /\ outbound[1].url.path = HttpPath["BtcProvider"][call.name]

C22_Witness ==
    /\ ReachedHttp
    /\ call.name = "get_btc_txs_by_format"
    /\ call.request.chains = {"ETH"}
    /\ call.request.from_block.bounded
    /\ ~call.request.to_block.bounded
    /\ call.format = "JsonArray"
    /\ outbound # <<>>
    /\ outbound[1].query.chains = {"BTC"}
    /\ outbound[1].query.from_block = call.request.from_block

\* C21: an HTTP error status is not an error of the call: when the server
\* answers a call on HttpProvider with a 4xx or 5xx status the call returns
\* Ok with a stream, and every chunk of the response body is a data element
\* of the stream; an error element comes only from a failure of the body.
C21_ErrorStatusIsNotAnError ==
    (entry = "HttpProvider" /\ status >= 400)
        => /\ result = "Ok"
           /\ pc \in {"streaming", "errored", "drained"}
           /\ Len(delivered) = Len(wire)
           /\ \A i \in DOMAIN wire :
                IF wire[i].kind = "chunk"
                THEN delivered[i] = [kind |-> "Ok", bytes |-> wire[i].bytes]
                ELSE delivered[i].kind = "Err"

C21_Witness ==
    /\ entry = "HttpProvider"
    /\ status = 500
    /\ pc = "drained"
    /\ result = "Ok"
    /\ Len(wire) = 2
    /\ \A i \in DOMAIN wire : wire[i].kind = "chunk"
    /\ \A i \in DOMAIN delivered : delivered[i].kind = "Ok"

====
